---- MODULE Spec2Model ----
(***************************************************************************)
(* Model of the EmailListVerify Python SDK: the bounded polling loop       *)
(* EmailListVerifyClient.wait_for_bulk_completion, the job registry        *)
(* BulkVerificationManager (process_csv_file, get_job_status), and the     *)
(* request methods and verify_emails of the three client classes.          *)
(*                                                                         *)
(* Time is counted in whole seconds.  `elapsed` is the value the loop      *)
(* reads as time.time() - start_time.  Under SpecWait a status call takes   *)
(* 0..MaxDelay seconds and a sleep its argument plus 0..MaxDelay seconds;  *)
(* under Spec the manager's wait runs with the default arguments and       *)
(* sleeps that overrun by LongOversleep.                                   *)
(***************************************************************************)
EXTENDS Integers, Sequences, FiniteSets, TLC

(* ---------------------------- bounds ----------------------------------- *)

\* largest max_wait a direct caller of wait_for_bulk_completion passes
MaxWaitArg == 3

\* largest check_interval a direct caller passes
MaxIntervalArg == 2

\* the longest a status call takes, and the most a sleep oversleeps, in
\* seconds
MaxDelay == 1

\* with check_interval = 0 the number of status calls is unbounded; the
\* counter nCalls stops counting there
MaxZeroIntervalCalls == 3

\* process_csv_file calls made on one BulkVerificationManager
MaxSubmits == 2

\* get_job_status calls made on one BulkVerificationManager
MaxQueries == 1

\* get_job_status calls made on a manager that never waits
MaxPolls == 2

(* ------------------------ program constants ---------------------------- *)

\* wait_for_bulk_completion(file_id, check_interval = 10, max_wait = 3600)
DEFAULT_CHECK_INTERVAL == 10

DEFAULT_MAX_WAIT == 3600

(* ------------------------ values on the wire --------------------------- *)

\* Python's None, and the absence of a value
None == "None"

FileIds == {"f1", "f2"}

\* the empty dict {}
EmptyDict == [k \in {} |-> None]

\* dict.get(key, default)
Get(d, key, default) == IF key \in DOMAIN d THEN d[key] ELSE default

\* the JSON objects the status endpoint answers with: the status field holds
\* a known value, an unknown string, or is absent; a failed job may carry an
\* error detail
StatusDicts ==
  { ("status" :> "completed"),
    ("status" :> "failed"),
    ("status" :> "failed") @@ ("error" :> "bad csv"),
    ("status" :> "processing"),
    ("status" :> "queued"),
    EmptyDict }

\* what _make_request hands back: the parsed JSON object, or the body text
\* when the body is not JSON
JsonValue(d) == [kind |-> "json", obj |-> d, text |-> None]

TextValue(s) == [kind |-> "text", obj |-> EmptyDict, text |-> s]

NoValue == [kind |-> "none", obj |-> EmptyDict, text |-> None]

\* the ways a request fails in _make_request: no response, a non-2xx
\* status, the status 401
TransportErrors == {"network error", "500 Server Error", "401 Unauthorized"}

\* what the remote service and the network can do to one status request:
\* answer with a JSON object, answer with a bare text body, or fail
StatusAnswers ==
  { [ok |-> TRUE, value |-> JsonValue(d), error |-> None] : d \in StatusDicts }
    \cup { [ok |-> TRUE, value |-> TextValue("pending"), error |-> None] }
    \cup { [ok |-> FALSE, value |-> NoValue, error |-> e] : e \in TransportErrors }

\* str.strip() on the text bodies the upload endpoint answers with
Strip(s) == IF s = " f1 " THEN "f1" ELSE IF s = " ok " THEN "ok" ELSE s

\* what one upload request yields: a bare text body holding the file id
\* (possibly padded), a JSON object with or without 'file_id', or a failure
UploadAnswers ==
  { [ok |-> TRUE, value |-> TextValue(t)] : t \in {"f1", " f1 ", "f2"} }
    \cup { [ok |-> TRUE, value |-> JsonValue("file_id" :> f)] : f \in FileIds }
    \cup { [ok |-> TRUE, value |-> JsonValue(EmptyDict)] }
    \cup { [ok |-> FALSE, value |-> NoValue] }

\* what one download request yields: the CSV text, a body that parses as
\* JSON, or a failure
DownloadAnswers ==
  { [ok |-> TRUE, value |-> TextValue(t)] : t \in {"a@x.com,ok", "b@y.org,invalid"} }
    \cup { [ok |-> TRUE, value |-> JsonValue(EmptyDict)] }
    \cup { [ok |-> FALSE, value |-> NoValue] }

\* the paths a caller passes as input_file; os.path.exists holds of the first
InputPaths == {"in.csv", "missing.csv"}

ExistingPaths == {"in.csv"}

\* mutant: every path is taken to exist
PathExists_Always(path) == TRUE

\* os.path.exists(file_path)
PathExists(path) == path \in ExistingPaths

\* the paths a caller passes as output_file
OutputPaths == {"out1.csv", "out2.csv"}

\* a path that holds no file
NoFile == "<no file>"

\* an absent timestamp
NoTime == 0

(* ------------------------------ state ---------------------------------- *)

VARIABLES
  wPc,        \* position in wait_for_bulk_completion
  wFileId,    \* its argument file_id
  wInterval,  \* its argument check_interval
  wMaxWait,   \* its argument max_wait
  elapsed,    \* time.time() - start_time
  status,     \* the local variable status
  wOutcome,   \* how the call ended
  wResult,    \* the value it returned
  wMessage,   \* the message of the exception it raised
  nCalls,     \* status requests issued by this wait
  nSleeps,    \* sleeps performed by this wait
  issuedAt,   \* elapsed time read by the loop test before the last request
  lastObs,    \* what the last poll of this wait observed
  sawCompleted, \* a poll of this wait observed status 'completed'
  sawFailed,    \* a poll of this wait observed status 'failed'
  allNonTerminal, \* every poll of this wait observed a non-terminal status
  extraSteps  \* status requests and sleeps after a terminal observation

waitVars == <<wPc, wFileId, wInterval, wMaxWait, elapsed, status,
              wOutcome, wResult, wMessage, nCalls, nSleeps, issuedAt,
              lastObs, sawCompleted, sawFailed, allNonTerminal, extraSteps>>

VARIABLES
  mPc,         \* position in process_csv_file / get_job_status
  mInput,      \* process_csv_file: input_file
  mOutput,     \* process_csv_file: output_file
  mWait,       \* process_csv_file: wait_for_completion
  fileId,      \* the local file_id (get_job_status: its argument)
  jobInfo,     \* the local job_info: the dict it refers to, 0 for none
  finalStatus, \* the local final_status
  results,     \* the local results
  jobs,        \* every job dict created so far, in order of creation
  active_jobs, \* self.active_jobs: key -> the dict stored under it, 0 = no key
  fs,          \* the content of the output files
  clock,       \* timestamps taken so far by datetime.now()
  requests,    \* requests issued by the current manager call, per endpoint
  mOutcome,    \* how the last manager call ended
  mReturned,   \* the dict the last manager call returned, 0 for none
  submits,     \* process_csv_file calls so far
  queries,     \* get_job_status calls so far
  seenTerminal, \* per job dict: the terminal remote status the manager observed for it
  opSawCompleted, \* the wait of the current process_csv_file observed 'completed'
  born,        \* per job dict: the file id and paths it was created with
  trace,       \* the steps of the current manager call, in order
  fsBefore,    \* the output files as they were when the current call began
  reply,       \* the value the upload or status request of the current
               \* manager call yielded, until the manager moves on
  regBefore    \* the keys of the registry and the number of job dicts as
               \* they were when the current call began

mgrVars == <<mPc, mInput, mOutput, mWait, fileId, jobInfo, finalStatus, results,
             jobs, active_jobs, fs, clock, requests, mOutcome, mReturned,
             submits, queries, seenTerminal, born, opSawCompleted, trace,
             fsBefore, reply, regBefore>>

VARIABLES
  impl,      \* the client class in use
  api_key,   \* self.api_key
  cPc,       \* position in the client method that is running
  cOp,       \* the client method called last
  cArgs,     \* its arguments
  wire,      \* the requests the current client call has issued, in order
  cResp,     \* the response to the last of them
  cResult,   \* how the last client call ended: the value it returned or
             \* the message of the exception it raised
  emails,    \* verify_emails: emails
  delay,     \* verify_emails: delay
  vIdx,      \* verify_emails: elements of emails the loop has finished
  vResults,  \* verify_emails: results, None for an absent key
  items,     \* verify_emails: what verify_email did for each element so far
  vLog       \* verify_emails: its verify_email calls and sleeps, in order

cliVars == <<impl, api_key, cPc, cOp, cArgs, wire, cResp, cResult,
             emails, delay, vIdx, vResults, items, vLog>>

VARIABLE
  threads    \* per caller of a shared manager: the locals of the
             \* process_csv_file or get_job_status it is running

vars == <<waitVars, mgrVars, cliVars, threads>>

NoRequests == [upload |-> 0, status |-> 0, download |-> 0, downloadClean |-> 0]

InitMgr ==
  /\ mPc = "idle"
  /\ mInput = None
  /\ mOutput = None
  /\ mWait = FALSE
  /\ fileId = None
  /\ jobInfo = 0
  /\ finalStatus = NoValue
  /\ results = NoValue
  /\ jobs = <<>>
  /\ active_jobs = [k \in FileIds |-> 0]
  /\ fs = [p \in OutputPaths |-> NoFile]
  /\ clock = 0
  /\ requests = NoRequests
  /\ mOutcome = "none"
  /\ mReturned = 0
  /\ submits = 0
  /\ queries = 0
  /\ seenTerminal = <<>>
  /\ born = <<>>
  /\ opSawCompleted = FALSE
  /\ trace = <<>>
  /\ fsBefore = [p \in OutputPaths |-> NoFile]
  /\ reply = NoValue
  /\ regBefore = [active |-> [k \in FileIds |-> 0], count |-> 0]

NoMessage == [text |-> None, detail |-> None, waited |-> 0]

InitWait ==
  /\ wPc = "idle"
  /\ wFileId = None
  /\ wInterval = 0
  /\ wMaxWait = 0
  /\ elapsed = 0
  /\ status = NoValue
  /\ wOutcome = "none"
  /\ wResult = NoValue
  /\ wMessage = NoMessage
  /\ nCalls = 0
  /\ nSleeps = 0
  /\ issuedAt = 0
  /\ lastObs = "none"
  /\ sawCompleted = FALSE
  /\ sawFailed = FALSE
  /\ allNonTerminal = TRUE
  /\ extraSteps = 0

(* ------------------------- values of the clients ----------------------- *)

\* the client classes: EmailListVerifyClient of src/emaillistverify.py
\* (on requests), EmailListVerifyClient of src/src/emaillistverify/client.py
\* (on httpx), EmailListVerify of src/emaillistverify/__init__.py
Impls == {"requests", "httpx", "simple"}

\* the API keys a client is constructed with
ApiKeys == {"key-1", "key-2"}

\* the email addresses a caller passes, the empty string among them
Emails == {"a@x.com", "b@y.org", ""}

\* no response: the connection failed or timed out
NetworkError == [code |-> 0, body |-> NoValue]

\* nothing received yet
NoResponse == [code |-> -1, body |-> NoValue]

\* what the transport yields for one request: 200 with a text body (plain
\* or padded) or a body that parses as JSON, 401, 500, or no response
HttpResponses ==
  { [code |-> 200, body |-> TextValue(t)] : t \in {"ok", " ok "} }
    \cup { [code |-> 200, body |-> JsonValue("status" :> "ok")] }
    \cup { [code |-> c, body |-> TextValue("")] : c \in {401, 500} }
    \cup { NetworkError }

\* a message is the sequence of the pieces it is formatted from
NoMsg == <<>>

\* how a client call ends
Return(v) == [raised |-> FALSE, value |-> v, message |-> NoMsg]

Raise(m) == [raised |-> TRUE, value |-> NoValue, message |-> m]

NoResult == [raised |-> FALSE, value |-> NoValue, message |-> NoMsg]

\* the arguments of a client call, None for those the method does not take
NoArgs == [email |-> None, file_id |-> None, result_type |-> None,
           file_path |-> None, endpoint |-> None, params |-> EmptyDict]

\* verify_emails: no entry under a key
NoEntry == <<>>

\* a client after construction with api_key k, of class i
InitCli(i, k) ==
  /\ impl = i
  /\ api_key = k
  /\ cPc = "idle"
  /\ cOp = None
  /\ cArgs = NoArgs
  /\ wire = <<>>
  /\ cResp = NoResponse
  /\ cResult = NoResult
  /\ emails = <<>>
  /\ delay = 0
  /\ vIdx = 0
  /\ vResults = [e \in Emails |-> NoEntry]
  /\ items = <<>>
  /\ vLog = <<>>

\* the threads that call one manager
Callers == {"c1", "c2"}

\* a caller that runs no method of the manager
IdleThread ==
  [pc |-> "idle", op |-> None, input |-> None, output |-> None,
   wait |-> FALSE,
   fileId |-> None, jobInfo |-> 0, elapsed |-> 0, finalStatus |-> NoValue,
   outcome |-> "none", returned |-> 0, ops |-> 0]

InitThreads == threads = [c \in Callers |-> IdleThread]

\* the manager is built on the client of src/emaillistverify.py
Init == InitWait /\ InitMgr /\ InitCli("requests", "key-1") /\ InitThreads

\* a client of any of the classes, with any key
InitClient ==
  /\ InitWait /\ InitMgr /\ InitThreads
  /\ \E i \in Impls, k \in ApiKeys : InitCli(i, k)

(* ------------------- wait_for_bulk_completion -------------------------- *)

\* start_time = time.time(): a new wait starts with nothing elapsed
StartWait(fid, interval, maxWait) ==
  /\ wPc' = "check"
  /\ wFileId' = fid
  /\ wInterval' = interval
  /\ wMaxWait' = maxWait
  /\ elapsed' = 0
  /\ status' = NoValue
  /\ wOutcome' = "none"
  /\ wResult' = NoValue
  /\ wMessage' = NoMessage
  /\ nCalls' = 0
  /\ nSleeps' = 0
  /\ issuedAt' = 0
  /\ lastObs' = "none"
  /\ sawCompleted' = FALSE
  /\ sawFailed' = FALSE
  /\ allNonTerminal' = TRUE
  /\ extraSteps' = 0

\* mutant: the loop test off by one second
LoopTest_OffByOne(e, maxWait) == e + 1 < maxWait

\* mutant: the loop test with <= for <
LoopTest_Inclusive(e, maxWait) == e =< maxWait

\* the loop test
LoopTest(e, maxWait) == e < maxWait

\* one more status request, counted
CountCall(n, interval) ==
  IF interval = 0 /\ n >= MaxZeroIntervalCalls THEN n ELSE n + 1

\* the exception raised when the loop ends
TimeoutMessage(maxWait) ==
  [text |-> "Timeout waiting for bulk verification", detail |-> None,
   waited |-> maxWait]

\* mutant: the remote error detail dropped
FailedMessage_NoDetail(d) ==
  [text |-> "Bulk verification failed", detail |-> "Unknown error", waited |-> 0]

\* the exception raised on a failed job
FailedMessage(d) ==
  [text |-> "Bulk verification failed", detail |-> Get(d, "error", "Unknown error"),
   waited |-> 0]

\* how the wait ends, leaving everything else as it is
EndWait(outcome, result, message) ==
  /\ wPc' = "done"
  /\ wOutcome' = outcome
  /\ wResult' = result
  /\ wMessage' = message

\* while time.time() - start_time < max_wait: status = get_bulk_status(file_id)
\* up to the point where the request is on the wire; otherwise the Timeout
WaitLoopCheck ==
  /\ wPc = "check"
  /\ IF LoopTest(elapsed, wMaxWait)
       THEN IF wFileId = ""
              THEN \* get_bulk_status: if not file_id: raise
                   /\ EndWait("InvalidInput", NoValue,
                              [text |-> "File ID is required", detail |-> None, waited |-> 0])
                   /\ allNonTerminal' = FALSE
                   /\ lastObs' = "error"
                   /\ UNCHANGED <<nCalls, issuedAt, extraSteps>>
              ELSE /\ wPc' = "call"
                   /\ nCalls' = CountCall(nCalls, wInterval)
                   /\ issuedAt' = elapsed
                   /\ extraSteps' = IF sawCompleted \/ sawFailed
                                      THEN 1 ELSE extraSteps
                   /\ UNCHANGED <<wOutcome, wResult, wMessage, allNonTerminal, lastObs>>
       ELSE /\ EndWait("Timeout", NoValue, TimeoutMessage(wMaxWait))
            /\ UNCHANGED <<nCalls, issuedAt, allNonTerminal, lastObs, extraSteps>>
  /\ UNCHANGED <<wFileId, wInterval, wMaxWait, elapsed, status, nSleeps,
                 sawCompleted, sawFailed>>
  /\ UNCHANGED <<mgrVars, cliVars, threads>>

\* mutant: 'completed' is not recognised and the loop goes on
StatusBranch_NoReturn(v) ==
  IF v.kind # "json" THEN "AttributeError"
  ELSE IF Get(v.obj, "status", None) = "failed" THEN "RemoteFailure"
  ELSE "sleep"

\* mutant: every status but 'completed' and 'processing' is a failure
StatusBranch_UnknownFails(v) ==
  IF v.kind # "json" THEN "AttributeError"
  ELSE IF Get(v.obj, "status", None) = "completed" THEN "returned"
  ELSE IF Get(v.obj, "status", None) # "processing" THEN "RemoteFailure"
  ELSE "sleep"

\* what the loop body does with the value get_bulk_status returned
StatusBranch(v) ==
  IF v.kind # "json" THEN "AttributeError"
  ELSE IF Get(v.obj, "status", None) = "completed" THEN "returned"
  ELSE IF Get(v.obj, "status", None) = "failed" THEN "RemoteFailure"
  ELSE "sleep"

\* what one status request let the caller observe
Observe(ans) ==
  IF ~ans.ok THEN "error"
  ELSE IF ans.value.kind = "text" THEN "text"
  ELSE IF "status" \notin DOMAIN ans.value.obj THEN "nonterminal"
  ELSE IF ans.value.obj["status"] \in {"completed", "failed"}
         THEN ans.value.obj["status"]
  ELSE "nonterminal"

\* mutant: a failed status request is followed by the sleep and the loop
\* test
ReplyBranch_Retry(ans) ==
  IF ~ans.ok THEN "sleep" ELSE StatusBranch(ans.value)

\* what the loop does when get_bulk_status comes back: its exception
\* leaves the loop, its value goes through the loop body
ReplyBranch(ans) ==
  IF ~ans.ok THEN "RequestFailed" ELSE StatusBranch(ans.value)

\* the status request comes back after d seconds, with an answer or an
\* error, and the loop body runs up to the sleep
WaitStatusReply(ans, d) ==
  /\ wPc = "call"
  /\ elapsed' = elapsed + d
  /\ lastObs' = Observe(ans)
  /\ sawCompleted' = (sawCompleted \/ Observe(ans) = "completed")
  /\ sawFailed' = (sawFailed \/ Observe(ans) = "failed")
  /\ allNonTerminal' = (allNonTerminal /\ Observe(ans) = "nonterminal")
  /\ status' = IF ans.ok THEN ans.value ELSE status
  /\ LET b == ReplyBranch(ans) IN
       CASE b = "RequestFailed" ->
              \* _make_request raised: the exception leaves the loop
              EndWait("RequestFailed", NoValue,
                      [text |-> "Request failed", detail |-> ans.error,
                       waited |-> 0])
         [] b = "returned" ->
              EndWait("returned", ans.value, NoMessage)
         [] b = "RemoteFailure" ->
              EndWait("RemoteFailure", NoValue, FailedMessage(ans.value.obj))
         [] b = "AttributeError" ->
              EndWait("AttributeError", NoValue,
                      [text |-> "'str' object has no attribute 'get'",
                       detail |-> None, waited |-> 0])
         [] OTHER ->
              /\ wPc' = "sleep"
              /\ UNCHANGED <<wOutcome, wResult, wMessage>>
  /\ UNCHANGED <<wFileId, wInterval, wMaxWait, nCalls, nSleeps, issuedAt,
                 extraSteps>>
  /\ UNCHANGED <<mgrVars, cliVars, threads>>

\* mutant: the sleep is skipped
SleepTime_Skipped(interval, o) == o

\* the time a sleep of interval seconds takes when it oversleeps by o
SleepTime(interval, o) == interval + o

\* time.sleep(check_interval), which takes o seconds more than asked
WaitSleep(o) ==
  /\ wPc = "sleep"
  /\ elapsed' = elapsed + SleepTime(wInterval, o)
  /\ nSleeps' = CountCall(nSleeps, wInterval)
  /\ extraSteps' = IF sawCompleted \/ sawFailed THEN 1 ELSE extraSteps
  /\ wPc' = "check"
  /\ UNCHANGED <<wFileId, wInterval, wMaxWait, status, wOutcome, wResult,
                 wMessage, nCalls, issuedAt, lastObs, sawCompleted, sawFailed,
                 allNonTerminal>>
  /\ UNCHANGED <<mgrVars, cliVars, threads>>

\* a caller invokes client.wait_for_bulk_completion(fid, interval, maxWait)
CallWait(fid, interval, maxWait) ==
  /\ wPc \in {"idle", "done"}
  /\ mPc = "idle"
  /\ StartWait(fid, interval, maxWait)
  /\ UNCHANGED <<mgrVars, cliVars, threads>>

\* the file ids a direct caller passes, the empty string among them
WaitArgsFileIds == FileIds \cup {""}

NextWait ==
  \/ \E fid \in WaitArgsFileIds, i \in 0..MaxIntervalArg, m \in 0..MaxWaitArg :
       CallWait(fid, i, m)
  \/ WaitLoopCheck
  \/ \E ans \in StatusAnswers, d \in 0..MaxDelay : WaitStatusReply(ans, d)
  \/ \E o \in 0..MaxDelay : WaitSleep(o)

SpecWait == Init /\ [][NextWait]_vars

\* every status call returns, every sleep ends, and the clock advances: a
\* status call that takes time happens again and again while the loop runs
LiveSpecWait ==
  /\ SpecWait
  /\ WF_vars(WaitLoopCheck)
  /\ WF_vars(\E ans \in StatusAnswers, d \in 0..MaxDelay : WaitStatusReply(ans, d))
  /\ WF_vars(\E o \in 0..MaxDelay : WaitSleep(o))
  /\ SF_vars(\E ans \in StatusAnswers, d \in 1..MaxDelay : WaitStatusReply(ans, d))

(* ---------------------- BulkVerificationManager ------------------------ *)

\* the wait's frame is gone once its caller has taken its result
ReturnFromWait ==
  /\ wPc' = "idle"
  /\ wFileId' = None
  /\ wInterval' = 0
  /\ wMaxWait' = 0
  /\ elapsed' = 0
  /\ status' = NoValue
  /\ wOutcome' = "none"
  /\ wResult' = NoValue
  /\ wMessage' = NoMessage
  /\ nCalls' = 0
  /\ nSleeps' = 0
  /\ issuedAt' = 0
  /\ lastObs' = "none"
  /\ sawCompleted' = FALSE
  /\ sawFailed' = FALSE
  /\ allNonTerminal' = TRUE
  /\ extraSteps' = 0

\* mutant: the job is created as 'completed'
NewJob_Completed(fid, input, output, t) ==
  [file_id |-> fid, input_file |-> input, output_file |-> output,
   start_time |-> t, status |-> "completed", end_time |-> NoTime,
   final_status |-> NoValue, last_status |-> NoValue]

\* job_info = {'file_id': ..., 'input_file': ..., 'output_file': ...,
\*             'start_time': ..., 'status': 'processing'}
NewJob(fid, input, output, t) ==
  [file_id |-> fid, input_file |-> input, output_file |-> output,
   start_time |-> t, status |-> "processing", end_time |-> NoTime,
   final_status |-> NoValue, last_status |-> NoValue]

\* mutant: the job is stored under the key of another file id
Register_WrongKey(reg, fid, idx) ==
  [reg EXCEPT ![CHOOSE k \in FileIds : k # fid] = idx]

\* mutant: the job is not stored
Register_Nowhere(reg, fid, idx) == reg

\* self.active_jobs[file_id] = job_info
Register(reg, fid, idx) == [reg EXCEPT ![fid] = idx]

\* mutant: a text body is returned as it is
FileIdOf_NoStrip(v) ==
  IF v.kind = "text" THEN v.text
  ELSE IF v.kind = "json" /\ "file_id" \in DOMAIN v.obj THEN v.obj["file_id"]
  ELSE None

\* bulk_upload: the file id in the value _make_request returned, None when
\* the value has neither shape
FileIdOf(v) ==
  IF v.kind = "text" THEN Strip(v.text)
  ELSE IF v.kind = "json" /\ "file_id" \in DOMAIN v.obj THEN v.obj["file_id"]
  ELSE None

\* download_bulk_result: the endpoint for a result type
DownloadEndpoint(resultType) ==
  IF resultType = "all" THEN "download" ELSE "downloadClean"

\* mutant: the result type is not checked
DownloadArgsOk_AnyType(fid, resultType) == fid # ""

\* download_bulk_result: the arguments it rejects before any request
DownloadArgsOk(fid, resultType) ==
  fid # "" /\ resultType \in {"all", "clean"}

\* mutant: the download follows the wait however the wait ended
AfterWaitNext_Always(outcome) == "download"

\* process_csv_file after the wait: an exception of the wait leaves the
\* function, a returned record leads to the download
AfterWaitNext(outcome) == IF outcome = "returned" THEN "download" ELSE "raise"

\* a manager call ends, by return or by exception
EndCall(outcome, returned) ==
  /\ mPc' = "idle"
  /\ mOutcome' = outcome
  /\ mReturned' = returned

\* manager.process_csv_file(input, output, wait) up to the upload request:
\* bulk_upload raises when the input file does not exist
SubmitCall(input, output, wait) ==
  /\ mPc = "idle"
  /\ wPc = "idle"
  /\ submits < MaxSubmits
  /\ submits' = submits + 1
  /\ mInput' = input
  /\ mOutput' = output
  /\ mWait' = wait
  /\ fileId' = None
  /\ jobInfo' = 0
  /\ finalStatus' = NoValue
  /\ results' = NoValue
  /\ opSawCompleted' = FALSE
  /\ fsBefore' = fs
  /\ reply' = NoValue
  /\ regBefore' = [active |-> active_jobs, count |-> Len(jobs)]
  /\ IF ~PathExists(input)
       THEN /\ EndCall("FileNotFound", 0)
            /\ requests' = NoRequests
            /\ trace' = <<>>
       ELSE /\ mPc' = "uploading"
            /\ mOutcome' = "none"
            /\ mReturned' = 0
            /\ requests' = [NoRequests EXCEPT !.upload = 1]
            /\ trace' = <<"upload">>
  /\ UNCHANGED <<jobs, active_jobs, fs, clock, queries, seenTerminal, born>>
  /\ UNCHANGED <<waitVars, cliVars, threads>>

\* the upload request comes back: bulk_upload returns the file id it finds
\* in the value _make_request returned, or raises
UploadReply(ans) ==
  /\ mPc = "uploading"
  /\ reply' = ans.value
  /\ IF ~ans.ok \/ FileIdOf(ans.value) = None
       THEN /\ EndCall(IF ans.ok THEN "UploadError" ELSE "RequestFailed", 0)
            /\ UNCHANGED fileId
       ELSE /\ fileId' = FileIdOf(ans.value)
            /\ mPc' = "uploaded"
            /\ UNCHANGED <<mOutcome, mReturned>>
  /\ UNCHANGED <<mInput, mOutput, mWait, jobInfo, finalStatus, results, jobs,
                 active_jobs, fs, clock, requests, submits, queries,
                 seenTerminal, born, opSawCompleted, trace, fsBefore,
                 regBefore>>
  /\ UNCHANGED <<waitVars, cliVars, threads>>

\* process_csv_file with the file id in hand: the job is created and
\* registered, and either the wait begins or the job is returned
CreateJob ==
  /\ mPc = "uploaded"
  /\ reply' = NoValue
  /\ LET idx == Len(jobs) + 1
     IN /\ jobInfo' = idx
        /\ jobs' = Append(jobs, NewJob(fileId, mInput, mOutput, clock + 1))
        /\ clock' = clock + 1
        /\ active_jobs' = Register(active_jobs, fileId, idx)
        /\ seenTerminal' = Append(seenTerminal, "none")
        /\ born' = Append(born, [file_id |-> fileId, input_file |-> mInput,
                                 output_file |-> mOutput,
                                 start_time |-> clock + 1])
        /\ IF mWait
             THEN /\ mPc' = "waiting"
                  /\ trace' = trace \o <<"register", "wait">>
                  /\ StartWait(fileId, DEFAULT_CHECK_INTERVAL, DEFAULT_MAX_WAIT)
                  /\ UNCHANGED <<mOutcome, mReturned>>
             ELSE /\ EndCall("returned", idx)
                  /\ trace' = trace \o <<"register">>
                  /\ UNCHANGED waitVars
  /\ UNCHANGED <<mInput, mOutput, mWait, fileId, finalStatus, results, fs,
                 requests, submits, queries, opSawCompleted, fsBefore,
                 regBefore>>
  /\ UNCHANGED <<cliVars, threads>>

\* the terminal status a wait observed, "none" when it observed none
TerminalSeenBy(completed, failed, before) ==
  IF completed THEN "completed" ELSE IF failed THEN "failed" ELSE before

\* wait_for_bulk_completion has ended: its exception leaves
\* process_csv_file, or its record becomes final_status and
\* download_bulk_result(file_id, 'all') sends its request
AfterWait ==
  /\ mPc = "waiting"
  /\ wPc = "done"
  /\ opSawCompleted' = sawCompleted
  /\ seenTerminal' = [seenTerminal EXCEPT
                        ![jobInfo] = TerminalSeenBy(sawCompleted, sawFailed, @)]
  /\ IF AfterWaitNext(wOutcome) = "download"
       THEN /\ finalStatus' = wResult
            /\ IF DownloadArgsOk(fileId, "all")
                 THEN /\ mPc' = "downloading"
                      /\ requests' = [requests EXCEPT ![DownloadEndpoint("all")] = @ + 1]
                      /\ trace' = trace \o (IF nCalls > 0 THEN <<"poll">> ELSE <<>>)
                                        \o <<"download">>
                      /\ UNCHANGED <<mOutcome, mReturned>>
                 ELSE /\ EndCall("InvalidInput", 0)
                      /\ trace' = trace \o (IF nCalls > 0 THEN <<"poll">> ELSE <<>>)
                      /\ UNCHANGED requests
       ELSE /\ EndCall(wOutcome, 0)
            /\ trace' = trace \o (IF nCalls > 0 THEN <<"poll">> ELSE <<>>)
            /\ UNCHANGED <<finalStatus, requests>>
  /\ ReturnFromWait
  /\ UNCHANGED <<mInput, mOutput, mWait, fileId, jobInfo, results, jobs,
                 active_jobs, fs, clock, submits, queries, born, fsBefore,
                 reply, regBefore>>
  /\ UNCHANGED <<cliVars, threads>>

\* the download request comes back: results holds what _make_request
\* returned, or its exception leaves process_csv_file
DownloadReply(ans) ==
  /\ mPc = "downloading"
  /\ IF ans.ok
       THEN /\ results' = ans.value
            /\ mPc' = "writing"
            /\ UNCHANGED <<mOutcome, mReturned>>
       ELSE /\ EndCall("RequestFailed", 0)
            /\ UNCHANGED results
  /\ UNCHANGED <<mInput, mOutput, mWait, fileId, jobInfo, finalStatus, jobs,
                 active_jobs, fs, clock, requests, submits, queries,
                 seenTerminal, born, opSawCompleted, trace, fsBefore, reply,
                 regBefore>>
  /\ UNCHANGED <<waitVars, cliVars, threads>>

\* mutant: the job is marked without its end_time
MarkCompleted_NoEndTime(job, t, final) ==
  [job EXCEPT !.status = "completed", !.final_status = final]

\* job_info['status'] = 'completed'; job_info['end_time'] = ...;
\* job_info['final_status'] = final_status
MarkCompleted(job, t, final) ==
  [job EXCEPT !.status = "completed", !.end_time = t, !.final_status = final]

\* with open(output_file, 'w') as f: f.write(results), then the job is
\* marked and returned.  open may fail; f.write raises when results is not
\* text, after open has emptied the file
WriteAndMark(openOk) ==
  /\ mPc = "writing"
  /\ IF ~openOk
       THEN /\ EndCall("OSError", 0)
            /\ UNCHANGED <<fs, jobs, clock, trace>>
       ELSE IF results.kind # "text"
         THEN /\ fs' = [fs EXCEPT ![mOutput] = ""]
              /\ EndCall("TypeError", 0)
              /\ trace' = trace \o <<"open">>
              /\ UNCHANGED <<jobs, clock>>
         ELSE /\ fs' = [fs EXCEPT ![mOutput] = results.text]
              /\ jobs' = [jobs EXCEPT
                            ![jobInfo] = MarkCompleted(@, clock + 1, finalStatus)]
              /\ clock' = clock + 1
              /\ EndCall("returned", jobInfo)
              /\ trace' = trace \o <<"open", "write", "mark">>
  /\ UNCHANGED <<mInput, mOutput, mWait, fileId, jobInfo, finalStatus, results,
                 active_jobs, requests, submits, queries, seenTerminal, born,
                 opSawCompleted, fsBefore, reply, regBefore>>
  /\ UNCHANGED <<waitVars, cliVars, threads>>

\* manager.get_job_status(fid) up to the status request: an unknown key
\* raises before any request.  The caller makes at most budget such calls.
QueryCall(fid, budget) ==
  /\ mPc = "idle"
  /\ wPc = "idle"
  /\ queries < budget
  /\ queries' = queries + 1
  /\ fileId' = fid
  /\ jobInfo' = 0
  /\ finalStatus' = NoValue
  /\ results' = NoValue
  /\ opSawCompleted' = FALSE
  /\ fsBefore' = fs
  /\ reply' = NoValue
  /\ regBefore' = [active |-> active_jobs, count |-> Len(jobs)]
  /\ IF active_jobs[fid] = 0
       THEN /\ EndCall("UnknownJob", 0)
            /\ requests' = NoRequests
            /\ trace' = <<>>
       ELSE /\ mPc' = "querying"
            /\ mOutcome' = "none"
            /\ mReturned' = 0
            /\ requests' = [NoRequests EXCEPT !.status = 1]
            /\ trace' = <<"status">>
  /\ UNCHANGED <<mInput, mOutput, mWait, jobs, active_jobs, fs, clock, submits,
                 seenTerminal, born>>
  /\ UNCHANGED <<waitVars, cliVars, threads>>

\* mutant: the payload is not stored
StoreLastStatus_Dropped(job, v) == job

\* self.active_jobs[file_id]['last_status'] = status
StoreLastStatus(job, v) == [job EXCEPT !.last_status = v]

\* the status request of get_job_status comes back: the payload is stored
\* as the job's last_status and the job is returned, or the exception
\* leaves get_job_status
QueryReply(ans) ==
  /\ mPc = "querying"
  /\ reply' = ans.value
  /\ IF ans.ok
       THEN /\ jobs' = [jobs EXCEPT ![active_jobs[fileId]] = StoreLastStatus(@, ans.value)]
            /\ seenTerminal' =
                 [seenTerminal EXCEPT ![active_jobs[fileId]] =
                    TerminalSeenBy(Observe(ans) = "completed",
                                   Observe(ans) = "failed", @)]
            /\ EndCall("returned", active_jobs[fileId])
       ELSE /\ EndCall("RequestFailed", 0)
            /\ UNCHANGED <<jobs, seenTerminal>>
  /\ UNCHANGED <<mInput, mOutput, mWait, fileId, jobInfo, finalStatus, results,
                 active_jobs, fs, clock, requests, submits, queries, born,
                 opSawCompleted, trace, fsBefore, regBefore>>
  /\ UNCHANGED <<waitVars, cliVars, threads>>

\* how long the sleeps of the manager's wait oversleep: the machine is
\* suspended during each sleep, so that the wait with the defaults (10 s,
\* 3600 s) makes two polls before its Timeout
LongOversleep == DEFAULT_MAX_WAIT \div 2 - DEFAULT_CHECK_INTERVAL

\* the answers explored for the status request of get_job_status: a record
\* of each kind (completed, failed with its detail, processing), a bare
\* text body and a failure
QueryAnswers ==
  { a \in StatusAnswers :
      \/ ~a.ok
      \/ a.value.kind = "text"
      \/ Get(a.value.obj, "status", None) \in {"completed", "processing"}
      \/ "error" \in DOMAIN a.value.obj }

\* The manager's calls, one at a time.  Its wait runs with the defaults,
\* under one timing (immediate answers, long sleeps): the loop under
\* varying timing and arguments is SpecWait.
Next ==
  \/ \E input \in InputPaths, output \in OutputPaths, wait \in BOOLEAN :
       SubmitCall(input, output, wait)
  \/ \E ans \in UploadAnswers : UploadReply(ans)
  \/ CreateJob
  \/ WaitLoopCheck
  \/ \E ans \in StatusAnswers : WaitStatusReply(ans, 0)
  \/ WaitSleep(LongOversleep)
  \/ AfterWait
  \/ \E ans \in DownloadAnswers : DownloadReply(ans)
  \/ \E openOk \in BOOLEAN : WriteAndMark(openOk)
  \/ \E fid \in FileIds : QueryCall(fid, MaxQueries)
  \/ \E ans \in QueryAnswers : QueryReply(ans)

Spec == Init /\ [][Next]_vars

\* A manager used to submit without waiting and to poll: process_csv_file
\* with wait_for_completion=False, and get_job_status up to MaxPolls times
\* with every answer of the status endpoint.
NextQuery ==
  \/ \E input \in InputPaths, output \in OutputPaths :
       SubmitCall(input, output, FALSE)
  \/ \E ans \in UploadAnswers : UploadReply(ans)
  \/ CreateJob
  \/ \E fid \in FileIds : QueryCall(fid, MaxPolls)
  \/ \E ans \in StatusAnswers : QueryReply(ans)

SpecQuery == Init /\ [][NextQuery]_vars

(* ------------------------------ the clients ---------------------------- *)

\* the methods of each class that issue one request
Methods(i) ==
  IF i = "simple" THEN {"verify_email"}
  ELSE {"verify_email", "verify_email_detailed", "get_credits", "bulk_upload",
        "get_bulk_status", "download_bulk_result", "_make_request"}

\* the result types a caller passes to download_bulk_result
ResultTypes == {"all", "clean", "bogus"}

\* the params a caller passes to _make_request, a 'secret' of its own among
\* them
CallerParams ==
  { EmptyDict,
    ("secret" :> "caller-secret"),
    ("email" :> "a@x.com") @@ ("secret" :> "caller-secret") }

\* the arguments explored for each method
ArgsOf(op) ==
  CASE op \in {"verify_email", "verify_email_detailed"} ->
         { [NoArgs EXCEPT !.email = e] : e \in Emails }
    [] op = "bulk_upload" ->
         { [NoArgs EXCEPT !.file_path = path] : path \in InputPaths }
    [] op = "get_bulk_status" ->
         { [NoArgs EXCEPT !.file_id = f] : f \in {"f1", ""} }
    [] op = "download_bulk_result" ->
         { [NoArgs EXCEPT !.file_id = f, !.result_type = t] :
             f \in {"f1", ""}, t \in ResultTypes }
    [] op = "_make_request" ->
         { [NoArgs EXCEPT !.endpoint = "getCredits", !.params = q] :
             q \in CallerParams }
    [] OTHER -> { NoArgs }

\* the exception a method raises on its arguments before it builds a
\* request, NoMsg when it raises none
ArgError(op, a) ==
  CASE op \in {"verify_email", "verify_email_detailed"} ->
         IF a.email = "" THEN <<"Email address is required">> ELSE NoMsg
    [] op = "get_bulk_status" ->
         IF a.file_id = "" THEN <<"File ID is required">> ELSE NoMsg
    [] op = "download_bulk_result" ->
         IF a.file_id = "" THEN <<"File ID is required">>
         ELSE IF ~DownloadArgsOk(a.file_id, a.result_type)
           THEN <<"result_type must be 'all' or 'clean'">>
         ELSE NoMsg
    [] op = "bulk_upload" ->
         IF PathExists(a.file_path) THEN NoMsg
         ELSE <<"File not found: ", a.file_path>>
    [] OTHER -> NoMsg

\* the endpoint a method requests
Endpoint(op, a) ==
  CASE op = "verify_email" -> "verifyEmail"
    [] op = "verify_email_detailed" -> "verifyEmailDetailed"
    [] op = "get_credits" -> "getCredits"
    [] op = "bulk_upload" -> "verifApiFile"
    [] op = "get_bulk_status" -> "getApiFileInfo"
    [] op = "download_bulk_result" -> DownloadEndpoint(a.result_type)
    [] OTHER -> a.endpoint

\* the params a method hands to _make_request
Params(op, a) ==
  CASE op \in {"verify_email", "verify_email_detailed"} -> ("email" :> a.email)
    [] op = "bulk_upload" -> ("filename" :> "bulk_verify.csv")
    [] op \in {"get_bulk_status", "download_bulk_result"} ->
         ("file_id" :> a.file_id)
    [] op = "get_credits" -> EmptyDict
    [] OTHER -> a.params

\* mutant: a 'secret' among the caller's params is kept
WithSecret_KeepCaller(params, key) ==
  [k \in DOMAIN params \cup {"secret"} |->
     IF k \in DOMAIN params THEN params[k] ELSE key]

\* params['secret'] = self.api_key
WithSecret(params, key) ==
  [k \in DOMAIN params \cup {"secret"} |->
     IF k = "secret" THEN key ELSE params[k]]

\* the request a method puts on the wire
Request(op, a, key) ==
  [endpoint |-> Endpoint(op, a), params |-> WithSecret(Params(op, a), key)]

\* response.text of a body
BodyText(body) ==
  IF body.kind = "json" THEN "{\"status\": \"ok\"}" ELSE body.text

\* str(result) of a parsed JSON body
Str(obj) == "{'status': 'ok'}"

\* what the request code of class i makes of a response: the exception it
\* raises, or the value it returns (the parsed JSON, else the body text,
\* which the httpx client and EmailListVerify trim)
RequestResult(i, resp) ==
  IF resp.code = 0
    THEN Raise(<<"Request failed: ", "connection error">>)
  ELSE IF resp.code = 401
    THEN IF i = "httpx"
           THEN Raise(<<"Unauthorized: invalid API key">>)
           ELSE Raise(<<"Request failed: ", "401 Client Error">>)
  ELSE IF resp.code # 200
    THEN Raise(<<"Request failed: ", "500 Server Error">>)
  ELSE IF i = "simple"
    THEN Return(TextValue(Strip(BodyText(resp.body))))
  ELSE IF resp.body.kind = "json"
    THEN Return(resp.body)
  ELSE IF i = "httpx"
    THEN Return(TextValue(Strip(resp.body.text)))
  ELSE Return(resp.body)

\* the dict a method builds around a text result
Wrapped(email, statusText) ==
  JsonValue(("email" :> email) @@ ("status" :> statusText)
              @@ ("timestamp" :> "now"))

\* what a method of class i makes of the result r of its request
MethodResult(i, op, a, r) ==
  IF r.raised \/ i = "simple" THEN r
  ELSE CASE op = "verify_email" ->
              IF i = "requests"
                THEN IF r.value.kind = "text"
                       THEN Return(Wrapped(a.email, Strip(r.value.text)))
                       ELSE r
                ELSE IF r.value.kind = "text"
                       THEN r
                       ELSE Return(TextValue(Str(r.value.obj)))
         [] op = "verify_email_detailed" ->
              IF i = "httpx" /\ r.value.kind = "text"
                THEN Return(Wrapped(a.email, r.value.text))
                ELSE r
         [] op = "get_credits" ->
              IF i = "httpx" /\ r.value.kind = "text"
                THEN Return(JsonValue("credits" :> r.value.text))
                ELSE r
         [] op = "bulk_upload" ->
              IF FileIdOf(r.value) = None
                THEN Raise(<<"Failed to get file ID from response">>)
                ELSE Return(TextValue(FileIdOf(r.value)))
         [] OTHER -> r

\* the locals of verify_emails are gone
NoVerifyEmails ==
  /\ emails' = <<>>
  /\ delay' = 0
  /\ vIdx' = 0
  /\ vResults' = [e \in Emails |-> NoEntry]
  /\ items' = <<>>
  /\ vLog' = <<>>

\* a caller invokes method op with arguments a: the method raises on its
\* arguments, or its request goes on the wire
ClientCall(op, a) ==
  /\ cPc = "idle"
  /\ op \in Methods(impl)
  /\ cOp' = op
  /\ cArgs' = a
  /\ cResp' = NoResponse
  /\ NoVerifyEmails
  /\ IF ArgError(op, a) # NoMsg
       THEN /\ cResult' = Raise(ArgError(op, a))
            /\ wire' = <<>>
            /\ cPc' = "idle"
       ELSE /\ cResult' = NoResult
            /\ wire' = <<Request(op, a, api_key)>>
            /\ cPc' = "wire"
  /\ UNCHANGED <<impl, api_key>>
  /\ UNCHANGED <<waitVars, mgrVars, threads>>

\* the response arrives and the method returns or raises
ClientReply(resp) ==
  /\ cPc = "wire"
  /\ cResp' = resp
  /\ cResult' = MethodResult(impl, cOp, cArgs, RequestResult(impl, resp))
  /\ cPc' = "idle"
  /\ UNCHANGED <<impl, api_key, cOp, cArgs, wire, emails, delay, vIdx,
                 vResults, items, vLog>>
  /\ UNCHANGED <<waitVars, mgrVars, threads>>

\* longest list passed to verify_emails
MaxEmails == 2

\* the lists a caller passes to verify_emails, duplicates and empty strings
\* among their elements
EmailLists == UNION { [1..n -> Emails] : n \in 0..MaxEmails }

\* the delays a caller passes to verify_emails, in tenths of a second
Delays == {-1, 0, 1}

\* the value verify_emails returns: its dict results
ResultsDict == [kind |-> "dict", obj |-> EmptyDict, text |-> None]

\* a caller invokes verify_emails(list, d) on a class that has it
CallVerifyEmails(list, d) ==
  /\ cPc = "idle"
  /\ impl \in {"httpx", "simple"}
  /\ cOp' = "verify_emails"
  /\ cArgs' = NoArgs
  /\ cResp' = NoResponse
  /\ cResult' = NoResult
  /\ wire' = <<>>
  /\ emails' = list
  /\ delay' = d
  /\ vIdx' = 0
  /\ vResults' = [e \in Emails |-> NoEntry]
  /\ items' = <<>>
  /\ vLog' = <<>>
  /\ cPc' = "loop"
  /\ UNCHANGED <<impl, api_key>>
  /\ UNCHANGED <<waitVars, mgrVars, threads>>

\* mutant: the message is stored without its prefix
ErrorEntry_Bare(m) == m

\* f"error: {str(e)}"
ErrorEntry(m) == <<"error: ">> \o m

\* mutant: an entry that exists is kept
StoreEntry_KeepFirst(res, email, entry) ==
  IF res[email] # NoEntry THEN res ELSE [res EXCEPT ![email] = entry]

\* results[email] = ...
StoreEntry(res, email, entry) == [res EXCEPT ![email] = entry]

\* if delay > 0: time.sleep(delay), reached when verify_email returned
SleepsAfter(raised, d) == ~raised /\ d > 0

\* for email in emails: the loop ends and results is returned, or
\* verify_email is called for the next element; it raises on an empty
\* email, which the except clause turns into an entry, or its request
\* goes on the wire
VerifyNext ==
  /\ cPc = "loop"
  /\ IF vIdx = Len(emails)
       THEN /\ cResult' = Return(ResultsDict)
            /\ cPc' = "idle"
            /\ UNCHANGED <<wire, vIdx, vResults, items, vLog>>
       ELSE LET a == [NoArgs EXCEPT !.email = emails[vIdx + 1]] IN
            /\ vLog' = Append(vLog, "call")
            /\ IF ArgError("verify_email", a) # NoMsg
                 THEN /\ vResults' = StoreEntry(vResults, a.email,
                                       ErrorEntry(ArgError("verify_email", a)))
                      /\ items' = Append(items,
                                    [email |-> a.email, raised |-> TRUE,
                                     text |-> ArgError("verify_email", a),
                                     requested |-> FALSE])
                      /\ vIdx' = vIdx + 1
                      /\ UNCHANGED <<wire, cPc>>
                 ELSE /\ wire' = Append(wire, Request("verify_email", a, api_key))
                      /\ cPc' = "item"
                      /\ UNCHANGED <<vResults, items, vIdx>>
            /\ UNCHANGED cResult
  /\ UNCHANGED <<impl, api_key, cOp, cArgs, cResp, emails, delay>>
  /\ UNCHANGED <<waitVars, mgrVars, threads>>

\* the response for the current element arrives: verify_email returns and
\* its result is stored, then the sleep if delay > 0; or it raises and the
\* except clause stores the error string
VerifyItemReply(resp) ==
  /\ cPc = "item"
  /\ cResp' = resp
  /\ LET a == [NoArgs EXCEPT !.email = emails[vIdx + 1]]
         r == MethodResult(impl, "verify_email", a, RequestResult(impl, resp))
     IN /\ vResults' = StoreEntry(vResults, a.email,
                         IF r.raised THEN ErrorEntry(r.message)
                                     ELSE <<r.value.text>>)
        /\ items' = Append(items,
                      [email |-> a.email, raised |-> r.raised,
                       text |-> IF r.raised THEN r.message ELSE <<r.value.text>>,
                       requested |-> TRUE])
        /\ cPc' = IF SleepsAfter(r.raised, delay) THEN "nap" ELSE "loop"
  /\ vIdx' = vIdx + 1
  /\ UNCHANGED <<impl, api_key, cOp, cArgs, wire, cResult, emails, delay, vLog>>
  /\ UNCHANGED <<waitVars, mgrVars, threads>>

\* time.sleep(delay) ends
VerifySleep ==
  /\ cPc = "nap"
  /\ vLog' = Append(vLog, "sleep")
  /\ cPc' = "loop"
  /\ UNCHANGED <<impl, api_key, cOp, cArgs, wire, cResp, cResult, emails,
                 delay, vIdx, vResults, items>>
  /\ UNCHANGED <<waitVars, mgrVars, threads>>

\* every method of the three classes
AllMethods == UNION { Methods(i) : i \in Impls }

\* The calls a caller makes on one client, one at a time.
NextClient ==
  \/ \E op \in AllMethods : \E a \in ArgsOf(op) : ClientCall(op, a)
  \/ \E resp \in HttpResponses : ClientReply(resp)
  \/ \E list \in EmailLists, d \in Delays : CallVerifyEmails(list, d)
  \/ VerifyNext
  \/ \E resp \in HttpResponses : VerifyItemReply(resp)
  \/ VerifySleep

SpecClient == InitClient /\ [][NextClient]_vars

(* ------------------------- the wait loop's claims ---------------------- *)

\* the status a poll observed in the value the loop holds
StatusOf(v) == IF "status" \in DOMAIN v.obj THEN v.obj["status"] ELSE None

\* C1: wait_for_bulk_completion returns successfully exactly when a poll
\* issued while elapsed < max_wait observed 'completed' (no poll before it
\* observed 'failed'); it returns that poll's record, and no status call or
\* sleep follows that poll.
C1_ReturnsIffCompleted ==
  /\ (wOutcome = "returned") <=> sawCompleted
  /\ sawCompleted =>
       /\ ~sawFailed
       /\ lastObs = "completed"
       /\ issuedAt < wMaxWait
       /\ wPc = "done"
       /\ wResult = status
       /\ wResult.kind = "json"
       /\ StatusOf(wResult) = "completed"
       /\ extraSteps = 0

\* a wait that returned the record of its second poll
C1_Witness ==
  /\ wOutcome = "returned"
  /\ nCalls = 2
  /\ nSleeps = 1
  /\ StatusOf(wResult) = "completed"

\* C2: the first poll that observes 'failed' ends the wait at once with
\* RemoteFailure, whatever remains of max_wait: no sleep and no status call
\* follow it, and the error carries the remote 'error' detail, or
\* "Unknown error" when the record has none.
C2_FailsAtOnceOnFailed ==
  /\ (wOutcome = "RemoteFailure") <=> sawFailed
  /\ sawFailed =>
       /\ wPc = "done"
       /\ lastObs = "failed"
       /\ extraSteps = 0
       /\ wMessage.text = "Bulk verification failed"
       /\ IF "error" \in DOMAIN status.obj
            THEN wMessage.detail = status.obj["error"]
            ELSE wMessage.detail = "Unknown error"

\* a wait that failed on its first poll with the whole budget left, the
\* record carrying no error detail
C2_Witness ==
  /\ wOutcome = "RemoteFailure"
  /\ nCalls = 1
  /\ elapsed = 0
  /\ wMaxWait = MaxWaitArg
  /\ "error" \notin DOMAIN status.obj
  /\ wMessage.detail = "Unknown error"

\* C3: the wait fails with Timeout exactly when every poll it made observed
\* a non-terminal status; a record whose status is neither 'completed' nor
\* 'failed' (an unknown string, or no status field) leads to a sleep of
\* check_interval and then to the loop test again.
C3_TimeoutIffAllNonTerminal ==
  /\ wPc = "done" => ((wOutcome = "Timeout") <=> allNonTerminal)
  /\ wPc = "sleep" => lastObs = "nonterminal"
  /\ lastObs = "nonterminal" =>
       /\ status.kind = "json"
       /\ StatusOf(status) \notin {"completed", "failed"}
       /\ wPc \in {"sleep", "check", "call"} \/ wOutcome = "Timeout"
  /\ wInterval > 0 =>
       /\ wPc = "check" => nSleeps = nCalls
       /\ wPc \in {"call", "sleep"} => nSleeps = nCalls - 1
       /\ wOutcome = "Timeout" => nSleeps = nCalls
       /\ elapsed >= nSleeps * wInterval

\* a wait that timed out after polls that saw a record without a status
\* field
C3_Witness ==
  /\ wOutcome = "Timeout"
  /\ nCalls >= 2
  /\ status.kind = "json"
  /\ "status" \notin DOMAIN status.obj

\* C4 as claimed: every invocation, for every max_wait including 0, issues
\* at least one status call before it fails with Timeout.
C4_Original_CallBeforeTimeout ==
  wOutcome = "Timeout" => nCalls >= 1

\* C4 as amended: the loop test comes first.  With max_wait > 0 a wait
\* issues at least one status call, and sleeps after it, before it fails
\* with Timeout; with max_wait = 0 it fails with Timeout at once, without
\* any status call or sleep.
C4_CallBeforeTimeoutIfPositive ==
  wOutcome = "Timeout" =>
    IF wMaxWait > 0
      THEN nCalls >= 1 /\ nSleeps >= 1 /\ lastObs = "nonterminal"
      ELSE nCalls = 0 /\ nSleeps = 0 /\ elapsed = 0 /\ lastObs = "none"

\* a wait with max_wait = 1 that timed out after exactly one status call
C4_Witness ==
  /\ wOutcome = "Timeout"
  /\ wMaxWait = 1
  /\ nCalls = 1
  /\ nSleeps = 1

\* C5, the states: every status call was issued at a loop test that read
\* elapsed < max_wait, and the Timeout message carries max_wait.
C5_Inv ==
  /\ nCalls > 0 => issuedAt < wMaxWait
  /\ wPc = "call" => issuedAt = elapsed
  /\ wOutcome = "Timeout" =>
       /\ elapsed >= wMaxWait
       /\ wMessage = [text |-> "Timeout waiting for bulk verification",
                      detail |-> None, waited |-> wMaxWait]

\* C5, the steps: from the loop test with elapsed >= max_wait the next step
\* of the wait is the Timeout, and it issues no status call.
C5_Step ==
  (wPc = "check" /\ elapsed >= wMaxWait) =>
    (wPc' = "done" /\ wOutcome' = "Timeout" /\ nCalls' = nCalls
       /\ wMessage'.waited = wMaxWait)

\* C5: no status call is issued once the elapsed time has met or exceeded
\* max_wait: after a sleep that brings elapsed to max_wait or beyond the
\* next step is the Timeout failure, whose message embeds max_wait.
C5_NoCallPastBound == []C5_Inv /\ [][C5_Step]_vars

\* a wait whose sleep overshot the bound and that then timed out
C5_Witness ==
  /\ wOutcome = "Timeout"
  /\ elapsed > wMaxWait
  /\ nCalls >= 1
  /\ wMessage.waited = wMaxWait

\* ceil(a / b) for b > 0
CeilDiv(a, b) == (a + b - 1) \div b

\* C6, the bound: with check_interval > 0 a wait issues at most
\* ceil(max_wait / check_interval) status calls.
C6_Bound ==
  wInterval > 0 => nCalls =< CeilDiv(wMaxWait, wInterval)

JobUnder(k) == jobs[active_jobs[k]]

\* the status recorded under key k
StatusUnder(k) ==
  IF active_jobs[k] = 0 THEN "unregistered" ELSE JobUnder(k).status

\* C7 as claimed: once a manager call has ended, no registered job has
\* status 'processing' if the manager observed a terminal remote status
\* ('completed' or 'failed') for it, in the wait of process_csv_file or in
\* a get_job_status poll.
C7_NoProcessingAfterTerminalSeen ==
  mPc = "idle" =>
    \A k \in FileIds :
      (active_jobs[k] # 0 /\ seenTerminal[active_jobs[k]] # "none")
        => JobUnder(k).status # "processing"

\* C8 as claimed: the status recorded under a key only advances from
\* 'processing' to 'completed' or 'failed'; once terminal it never changes
\* again, also when a later upload is answered with a registered file id.
C8_StatusOnlyAdvances ==
  [][\A k \in FileIds :
       /\ StatusUnder(k) \in {"completed", "failed"}
            => StatusUnder(k)' = StatusUnder(k)
       /\ StatusUnder(k)' # StatusUnder(k)
            => \/ StatusUnder(k) = "unregistered" /\ StatusUnder(k)' = "processing"
               \/ StatusUnder(k) = "processing"
                    /\ StatusUnder(k)' \in {"completed", "failed"}]_vars

\* C9: a job's file id is assigned once, at creation from the upload
\* result, and never reassigned: each entry of the registry holds a job
\* whose 'file_id' is the key it is stored under, no job is ever removed,
\* and after any sequence of process_csv_file and get_job_status calls
\* every job still has the file_id, input_file and output_file it was
\* created with.
C9_FileIdAssignedOnce ==
  /\ \A k \in FileIds :
       active_jobs[k] # 0 =>
         /\ active_jobs[k] \in 1..Len(jobs)
         /\ JobUnder(k).file_id = k
  /\ Len(jobs) = Len(born)
  /\ \A i \in 1..Len(jobs) :
       /\ jobs[i].file_id = born[i].file_id
       /\ jobs[i].input_file = born[i].input_file
       /\ jobs[i].output_file = born[i].output_file

\* two jobs registered under their own file ids, one completed by its
\* process_csv_file and then refreshed by a get_job_status
C9_Witness ==
  /\ mPc = "idle"
  /\ active_jobs["f1"] # 0
  /\ active_jobs["f2"] # 0
  /\ \E k \in FileIds :
       /\ JobUnder(k).status = "completed"
       /\ JobUnder(k).last_status # NoValue

\* the steps of a process_csv_file that waits, in order
FullOrder ==
  <<"upload", "register", "wait", "poll", "download", "open", "write", "mark">>

IsPrefix(a, b) == Len(a) =< Len(b) /\ \A i \in 1..Len(a) : a[i] = b[i]

\* the current (or last) manager call is a process_csv_file that sent its
\* upload
InSubmit == trace # <<>> /\ trace[1] = "upload"

\* C10: a process_csv_file that waits goes through upload, status polling,
\* download of result type 'all', write of the output file and the marking
\* of the job, in this order: the download is requested and the output
\* file written only after a poll observed 'completed', and after a wait
\* that ended in Timeout or RemoteFailure there is no download request and
\* the output files are as they were.
C10_StepsInOrder ==
  InSubmit =>
    /\ IsPrefix(trace, FullOrder)
    /\ (mPc \in {"uploading", "uploaded", "waiting"}) =>
         (requests.download = 0 /\ fs = fsBefore)
    /\ (requests.download > 0 \/ mPc \in {"downloading", "writing"}) =>
         /\ mWait
         /\ opSawCompleted
         /\ requests = [NoRequests EXCEPT !.upload = 1, !.download = 1]
    /\ fs # fsBefore =>
         /\ opSawCompleted
         /\ requests.download = 1
         /\ results.kind # "none"
    /\ mOutcome \in {"Timeout", "RemoteFailure"} =>
         /\ requests = [NoRequests EXCEPT !.upload = 1]
         /\ fs = fsBefore
         /\ ~opSawCompleted
         /\ jobs[jobInfo].status = "processing"
    /\ jobInfo # 0 =>
         (jobs[jobInfo].status = "completed" <=> (mOutcome = "returned" /\ mWait))
    /\ (mOutcome = "returned" /\ mWait) =>
         /\ trace = FullOrder
         /\ fs[mOutput] = results.text

\* a process_csv_file that went through all its steps
C10_Witness ==
  /\ InSubmit
  /\ mOutcome = "returned"
  /\ trace = FullOrder
  /\ fs[mOutput] = "a@x.com,ok"

(* ------------------ process_csv_file and get_job_status ---------------- *)

\* C11: process_csv_file with wait_for_completion=False issues exactly one
\* request, the upload, and no status or download request; it writes no
\* output file, registers the job under the file id bulk_upload returned,
\* with status 'processing', and returns that job.
C11_NoWaitSubmitsOnly ==
  (InSubmit /\ ~mWait) =>
    /\ requests = [NoRequests EXCEPT !.upload = 1]
    /\ fs = fsBefore
    /\ wPc = "idle"
    /\ mPc \in {"uploading", "uploaded", "idle"}
    /\ (mPc = "idle" /\ mOutcome = "returned") =>
         /\ trace = <<"upload", "register">>
         /\ jobInfo = regBefore.count + 1
         /\ Len(jobs) = regBefore.count + 1
         /\ mReturned = jobInfo
         /\ active_jobs = [regBefore.active EXCEPT ![fileId] = jobInfo]
         /\ jobs[jobInfo].file_id = fileId
         /\ jobs[jobInfo].input_file = mInput
         /\ jobs[jobInfo].output_file = mOutput
         /\ jobs[jobInfo].status = "processing"
         /\ jobs[jobInfo].end_time = NoTime
         /\ jobs[jobInfo].final_status = NoValue
         /\ jobs[jobInfo].last_status = NoValue

\* a process_csv_file that does not wait has returned its job, after an
\* earlier process_csv_file wrote its output file
C11_Witness ==
  /\ InSubmit
  /\ ~mWait
  /\ mPc = "idle"
  /\ mOutcome = "returned"
  /\ submits = 2
  /\ jobs[mReturned].status = "processing"
  /\ \E p \in OutputPaths : fs[p] # NoFile

\* the current (or last) manager call is a get_job_status that sent its
\* status request
InQuery == trace # <<>> /\ trace[1] = "status"

\* C12, the states: get_job_status for a key that is not registered fails
\* with UnknownJob without any request and with the registry's keys as they
\* were; for a registered key it issues one status request and no other,
\* and when the request is answered the job under the key holds the payload
\* as its last_status and is the job returned.
C12_Inv ==
  /\ mOutcome = "UnknownJob" =>
       /\ mPc = "idle"
       /\ regBefore.active[fileId] = 0
       /\ requests = NoRequests
       /\ active_jobs = regBefore.active
       /\ Len(jobs) = regBefore.count
       /\ mReturned = 0
  /\ InQuery =>
       /\ regBefore.active[fileId] # 0
       /\ requests = [NoRequests EXCEPT !.status = 1]
       /\ active_jobs = regBefore.active
       /\ Len(jobs) = regBefore.count
       /\ fs = fsBefore
       /\ (mPc = "idle" /\ mOutcome = "returned") =>
            /\ mReturned = active_jobs[fileId]
            /\ reply.kind # "none"
            /\ JobUnder(fileId).last_status = reply
       /\ (mPc = "idle" /\ mOutcome # "returned") =>
            /\ mOutcome = "RequestFailed"
            /\ mReturned = 0

\* C12, the steps: a get_job_status that fails, for an unknown key or by
\* its status request, leaves every job dict and the registry as they were;
\* one that succeeds changes nothing but the last_status of the job under
\* its key.
C12_Step ==
  /\ (mPc = "idle" /\ mOutcome' = "UnknownJob") =>
       UNCHANGED <<jobs, active_jobs, fs>>
  /\ mPc = "querying" =>
       /\ UNCHANGED <<active_jobs, fs>>
       /\ mOutcome' = "RequestFailed" => UNCHANGED jobs
       /\ \A i \in 1..Len(jobs) :
            /\ i # active_jobs[fileId] => jobs'[i] = jobs[i]
            /\ [jobs'[i] EXCEPT !.last_status = NoValue]
                 = [jobs[i] EXCEPT !.last_status = NoValue]

\* C12: get_job_status for a fileId that was never registered fails with
\* UnknownJob, issues no network call and leaves the registry unchanged;
\* for a registered fileId it issues exactly one getStatus call and stores
\* that call's payload as the job's cached last remote status, and if that
\* call fails the cached payload and all other job fields are unchanged.
C12_GetJobStatus == []C12_Inv /\ [][C12_Step]_vars

\* a get_job_status whose status request failed, on a job that holds the
\* payload of an earlier get_job_status
C12_Witness ==
  /\ InQuery
  /\ mPc = "idle"
  /\ mOutcome = "RequestFailed"
  /\ queries = 2
  /\ JobUnder(fileId).last_status = JsonValue("status" :> "processing")

\* C13: bulk_upload given a path that does not exist fails with FileNotFound
\* before any network call: the call issues no request, and through
\* process_csv_file no job is created or registered; an upload request is
\* issued only for a path that exists.
C13_MissingFileNoRequest ==
  /\ mOutcome = "FileNotFound" =>
       /\ mPc = "idle"
       /\ mInput \notin ExistingPaths
       /\ requests = NoRequests
       /\ trace = <<>>
       /\ jobInfo = 0
       /\ mReturned = 0
       /\ active_jobs = regBefore.active
       /\ Len(jobs) = regBefore.count
       /\ fs = fsBefore
  /\ InSubmit => mInput \in ExistingPaths
  /\ requests.upload > 0 => mInput \in ExistingPaths

\* a process_csv_file of a missing file on a manager that holds a job
C13_Witness ==
  /\ mOutcome = "FileNotFound"
  /\ mInput = "missing.csv"
  /\ submits = 2
  /\ Len(jobs) = 1
  /\ \E k \in FileIds : active_jobs[k] = 1

ErrorKind(m) ==
  IF m = NoMsg THEN "none"
  ELSE IF m[1] \in {"Email address is required", "File ID is required",
                    "result_type must be 'all' or 'clean'"}
    THEN "InvalidInput"
  ELSE IF m[1] = "Unauthorized: invalid API key" THEN "Unauthorized"
  ELSE IF m[1] = "Request failed: " THEN "RequestFailed"
  ELSE IF m[1] = "File not found: " THEN "FileNotFound"
  ELSE "UploadError"

\* the caller-argument errors: an empty email, an empty file id, a result
\* type that is neither 'all' nor 'clean'
BadArgs(op, a) ==
  \/ op \in {"verify_email", "verify_email_detailed"} /\ a.email = ""
  \/ op \in {"get_bulk_status", "download_bulk_result"} /\ a.file_id = ""
  \/ op = "download_bulk_result" /\ a.result_type \notin {"all", "clean"}

\* C14: every caller-argument error is detected before any network call:
\* verify_email and verify_email_detailed with an empty email,
\* get_bulk_status and download_bulk_result with an empty file id, and
\* download_bulk_result with a result type outside {'all', 'clean'} fail
\* with InvalidInput having issued no request, and no request on the wire
\* carries an empty email or an empty file id.
C14_ArgErrorsBeforeNetwork ==
  /\ (cOp \in AllMethods /\ BadArgs(cOp, cArgs)) =>
       /\ cPc = "idle"
       /\ wire = <<>>
       /\ cResp = NoResponse
       /\ cResult.raised
       /\ ErrorKind(cResult.message) = "InvalidInput"
  /\ (cOp \in AllMethods /\ ErrorKind(cResult.message) = "InvalidInput") =>
       /\ BadArgs(cOp, cArgs)
       /\ wire = <<>>
  /\ \A i \in 1..Len(wire) :
       /\ "email" \in DOMAIN wire[i].params => wire[i].params["email"] # ""
       /\ "file_id" \in DOMAIN wire[i].params => wire[i].params["file_id"] # ""
       /\ wire[i].endpoint \in
            {"verifyEmail", "verifyEmailDetailed", "getCredits", "verifApiFile",
             "getApiFileInfo", "download", "downloadClean"}
       /\ wire[i].endpoint \in {"download", "downloadClean"} =>
            (wire[i].endpoint = "download" <=> cArgs.result_type = "all")

\* download_bulk_result('f1', 'bogus') has raised without a request
C14_Witness ==
  /\ cOp = "download_bulk_result"
  /\ cArgs.file_id = "f1"
  /\ cArgs.result_type = "bogus"
  /\ cPc = "idle"
  /\ cResult.raised
  /\ cResult.message = <<"result_type must be 'all' or 'clean'">>
  /\ wire = <<>>

\* C15 as claimed: when the transport receives HTTP 401, every calling
\* method surfaces an Unauthorized error, which no other failure of a
\* request (another non-2xx status, a network failure) surfaces.
C15_UnauthorizedOn401 ==
  (cOp \in AllMethods /\ cPc = "idle" /\ cResp # NoResponse) =>
    IF cResp.code = 401
      THEN cResult.raised /\ ErrorKind(cResult.message) = "Unauthorized"
      ELSE ErrorKind(cResult.message) # "Unauthorized"

\* the entry verify_emails owes for what verify_email did with an element
EntryFor(item) ==
  IF item.raised THEN <<"error: ">> \o item.text ELSE item.text

\* the last place of email e among the first n elements of emails, 0 when
\* it is not among them
LastIndex(e, n) ==
  IF \E i \in 1..n : emails[i] = e
    THEN CHOOSE i \in 1..n :
           emails[i] = e /\ \A j \in (i + 1)..n : emails[j] # e
    ELSE 0

\* C16, the states: no exception leaves verify_emails; when it has returned
\* every element has been verified and every distinct email has an entry,
\* the entry 'error: <message>' when the last verification of that email
\* failed.
C16_Inv ==
  cOp = "verify_emails" =>
    /\ ~cResult.raised
    /\ Len(items) = vIdx
    /\ vIdx =< Len(emails)
    /\ \A i \in 1..vIdx : items[i].email = emails[i]
    /\ \A i \in 1..vIdx :
         (items[i].raised /\ LastIndex(emails[i], vIdx) = i) =>
           /\ vResults[emails[i]][1] = "error: "
           /\ vResults[emails[i]] = <<"error: ">> \o items[i].text
    /\ cPc = "idle" =>
         /\ cResult = Return(ResultsDict)
         /\ vIdx = Len(emails)
         /\ \A i \in 1..Len(emails) : vResults[emails[i]] # NoEntry
         /\ \A e \in Emails :
              vResults[e] # NoEntry => \E i \in 1..Len(emails) : emails[i] = e

\* C16, the steps: the step that finishes an element changes the entry of
\* that element's email only, also when its verification failed, and the
\* loop goes on to the next element.
C16_Step ==
  (cOp = "verify_emails" /\ vIdx' = vIdx + 1) =>
    /\ \A e \in Emails : e # emails[vIdx + 1] => vResults'[e] = vResults[e]
    /\ vResults'[emails[vIdx + 1]] = EntryFor(items'[vIdx + 1])
    /\ cPc' \in {"loop", "nap"}
    /\ UNCHANGED <<emails, cResult>>

NonEmpty(n) == { i \in 1..n : emails[i] # "" }

\* the number of verify_email calls in the log
Calls(log) == Cardinality({ i \in 1..Len(log) : log[i] = "call" })

\* C17 as claimed, its last part: the result reflects each element's own
\* outcome.
C17_Original_EachElementsOwnOutcome ==
  (cOp = "verify_emails" /\ cPc = "idle") =>
    \A i \in 1..Len(emails) : vResults[emails[i]] = EntryFor(items[i])

\* C17 as amended: verify_emails calls verify_email once per element, in
\* input order, duplicates included, so that the requests it issues are
\* those of the non-empty elements in order; the result holds one entry per
\* distinct email, which reflects the outcome of the last element with that
\* email.
C17_OncePerElementLastWins ==
  cOp = "verify_emails" =>
    LET started == IF cPc = "item" THEN vIdx + 1 ELSE vIdx IN
    /\ Calls(vLog) = started
    /\ Len(items) = vIdx
    /\ \A i \in 1..vIdx :
         /\ items[i].email = emails[i]
         /\ items[i].requested <=> emails[i] # ""
    /\ Len(wire) = Cardinality(NonEmpty(started))
    /\ \A i \in NonEmpty(started) :
         wire[Cardinality(NonEmpty(i))].params["email"] = emails[i]
    /\ \A j \in 1..Len(wire) : wire[j].endpoint = "verifyEmail"
    /\ \A e \in Emails :
         vResults[e] = IF LastIndex(e, vIdx) = 0 THEN NoEntry
                       ELSE EntryFor(items[LastIndex(e, vIdx)])

\* verify_emails has returned for a list that holds one email twice, whose
\* two verifications ended differently
C17_Witness ==
  /\ cOp = "verify_emails"
  /\ cPc = "idle"
  /\ Len(emails) = 2
  /\ emails[1] = emails[2]
  /\ emails[1] # ""
  /\ ~items[1].raised
  /\ items[2].raised
  /\ Len(wire) = 2
  /\ vResults[emails[1]] = EntryFor(items[2])

\* C18 as claimed: with delay > 0 a sleep separates every two consecutive
\* verify_email calls, whether the earlier call succeeded or failed; with
\* delay <= 0 no sleep occurs.
C18_SleepBetweenCalls ==
  cOp = "verify_emails" =>
    IF delay > 0
      THEN \A i \in 1..(Len(vLog) - 1) :
             ~(vLog[i] = "call" /\ vLog[i + 1] = "call")
      ELSE \A i \in 1..Len(vLog) : vLog[i] # "sleep"

\* C19: every request a client issues carries a 'secret' query parameter
\* equal to the configured API key, also when the caller's params hold a
\* 'secret' of their own; the other params go out as the method built them.
C19_SecretIsApiKey ==
  \A i \in 1..Len(wire) :
    /\ "secret" \in DOMAIN wire[i].params
    /\ wire[i].params["secret"] = api_key
    /\ cOp \in AllMethods =>
         /\ DOMAIN wire[i].params = DOMAIN Params(cOp, cArgs) \cup {"secret"}
         /\ \A k \in DOMAIN Params(cOp, cArgs) \ {"secret"} :
              wire[i].params[k] = Params(cOp, cArgs)[k]

\* _make_request was called with params that hold a 'secret', and the
\* request went out with the API key
C19_Witness ==
  /\ cOp = "_make_request"
  /\ "secret" \in DOMAIN cArgs.params
  /\ "email" \in DOMAIN cArgs.params
  /\ cArgs.params["secret"] # api_key
  /\ Len(wire) = 1
  /\ wire[1].params["secret"] = api_key
  /\ wire[1].params["email"] = cArgs.params["email"]

(* ---------------------- the wait loop and failures --------------------- *)

\* C21: wait_for_bulk_completion issues a further status call only after a
\* poll that returned a non-terminal status: when a status call itself
\* fails (network error, non-2xx, or 401) the failure leaves the loop at
\* once, with no sleep and no further status call, and the sleeps made are
\* those after the earlier polls.
C21_FailurePropagatesAtOnce ==
  /\ (wOutcome = "RequestFailed") <=> (lastObs = "error" /\ wFileId # "")
  /\ lastObs = "error" =>
       /\ wPc = "done"
       /\ wResult = NoValue
  /\ wOutcome = "RequestFailed" =>
       /\ wMessage.detail \in TransportErrors
       /\ nCalls >= 1
       /\ wInterval > 0 => nSleeps = nCalls - 1
  /\ wPc = "sleep" => lastObs = "nonterminal"
  /\ (wPc = "check" /\ nCalls >= 1) => lastObs = "nonterminal"
  /\ (wPc = "call" /\ nCalls >= 2) => lastObs = "nonterminal"

\* a wait whose second status call was answered 401, with time left
C21_Witness ==
  /\ wOutcome = "RequestFailed"
  /\ wMessage.detail = "401 Unauthorized"
  /\ nCalls = 2
  /\ nSleeps = 1
  /\ elapsed < wMaxWait

\* C22 as claimed: whatever the status endpoint answers with, a JSON object
\* or a bare-text body, wait_for_bulk_completion ends only by returning a
\* status record or by failing with an error of the library (RemoteFailure,
\* Timeout, a transport error passed on, or the InvalidInput of
\* get_bulk_status).
C22_EndsWithinTaxonomy ==
  wPc = "done" =>
    wOutcome \in {"returned", "RemoteFailure", "Timeout", "RequestFailed",
                  "InvalidInput"}

(* ------------------------ the registry's jobs -------------------------- *)

\* C23, the states: a job with status 'completed' is one for which the
\* manager observed a terminal remote status, and its final_status is a
\* record whose status is 'completed'; a job has an end_time exactly when
\* its status is terminal.
C23_Inv ==
  \A i \in 1..Len(jobs) :
    /\ jobs[i].status = "completed" =>
         /\ seenTerminal[i] # "none"
         /\ jobs[i].final_status.kind = "json"
         /\ StatusOf(jobs[i].final_status) = "completed"
    /\ jobs[i].end_time # NoTime <=> jobs[i].status \in {"completed", "failed"}

\* C23, the steps: a job becomes 'completed' only in the process_csv_file
\* that created it, after a poll of its wait observed 'completed' for the
\* job's file id and one download of the 'all' result was answered with
\* text, in the step that leaves exactly that text in the job's output
\* file; the step sets its end_time and stores the wait's record.
C23_Step ==
  \A i \in 1..Len(jobs) :
    (jobs[i].status # "completed" /\ jobs'[i].status = "completed") =>
      /\ mPc = "writing" /\ i = jobInfo
      /\ opSawCompleted
      /\ fileId = jobs[i].file_id
      /\ requests.download = 1 /\ requests.downloadClean = 0
      /\ results.kind = "text"
      /\ fs'[jobs[i].output_file] = results.text
      /\ jobs'[i].end_time = clock'
      /\ jobs'[i].final_status = finalStatus

\* C23: in every reachable state of the registry a job is 'completed' only
\* if a status poll observed remote status 'completed' for its file id,
\* the 'all' result was downloaded and the output file written with exactly
\* the downloaded text; its end_time is present if and only if its status
\* is terminal, and its final_status record then has status 'completed'.
C23_CompletedOnlyAfterWrite == []C23_Inv /\ [][C23_Step]_vars

\* a job completed by a process_csv_file whose output file holds the
\* downloaded text, next to a job that is still 'processing'
C23_Witness ==
  /\ Len(jobs) = 2
  /\ jobs[1].status = "processing" /\ jobs[1].end_time = NoTime
  /\ jobs[2].status = "completed" /\ jobs[2].end_time # NoTime
  /\ mPc = "idle" /\ mOutcome = "returned" /\ mReturned = 2
  /\ fs[jobs[2].output_file] = "b@y.org,invalid"

\* a process_csv_file has ended with an exception
SubmitFailed ==
  /\ mPc = "idle"
  /\ ~InQuery
  /\ mOutcome \notin {"none", "returned", "UnknownJob"}

\* C24, the states: when process_csv_file has failed before it had a file
\* id (missing input file, failed upload request, upload answer without a
\* file id) the registry has the keys and the job dicts it had when the
\* call began; when it has failed later (exception of the wait, of the
\* download or of the write) the job it created is the one registered
\* under the file id, with the file_id, input_file, output_file and
\* start_time it was created with.
C24_Inv ==
  SubmitFailed =>
    IF jobInfo = 0
      THEN /\ mOutcome \in {"FileNotFound", "RequestFailed", "UploadError"}
           /\ active_jobs = regBefore.active
           /\ Len(jobs) = regBefore.count
      ELSE /\ mOutcome \in {"Timeout", "RemoteFailure", "RequestFailed",
                            "AttributeError", "OSError", "TypeError"}
           /\ active_jobs[fileId] = jobInfo
           /\ jobs[jobInfo].file_id = fileId
           /\ jobs[jobInfo].input_file = mInput
           /\ jobs[jobInfo].output_file = mOutput
           /\ jobs[jobInfo].start_time = born[jobInfo].start_time
           /\ jobs[jobInfo].start_time # NoTime

\* C24, the steps: no step before the file id is in hand touches the
\* registry or a job; no key is ever removed and the entry under a key
\* changes only when process_csv_file registers a new job under it; no job
\* ever loses the fields it was created with; and get_job_status for a
\* registered key goes on to its status request instead of UnknownJob.
C24_Step ==
  /\ mPc \in {"idle", "uploading"} => UNCHANGED <<jobs, active_jobs>>
  /\ \A k \in FileIds :
       /\ active_jobs[k] # 0 => active_jobs'[k] # 0
       /\ active_jobs'[k] # active_jobs[k] =>
            /\ mPc = "uploaded" /\ k = fileId
            /\ active_jobs'[k] = Len(jobs) + 1
  /\ \A i \in 1..Len(jobs) :
       /\ i <= Len(jobs')
       /\ jobs'[i].file_id = jobs[i].file_id
       /\ jobs'[i].input_file = jobs[i].input_file
       /\ jobs'[i].output_file = jobs[i].output_file
       /\ jobs'[i].start_time = jobs[i].start_time
  /\ (mPc = "idle" /\ queries' = queries + 1 /\ active_jobs[fileId'] # 0) =>
       /\ mPc' = "querying"
       /\ mOutcome' # "UnknownJob"

\* C24: when process_csv_file fails after the upload succeeded, the job
\* stays registered under its file id with file_id, input_file,
\* output_file and start_time unchanged, so that a later get_job_status for
\* that file id does not fail with UnknownJob; when the upload itself fails
\* the registry is left exactly as it was.
C24_FailedSubmitKeepsJob == []C24_Inv /\ [][C24_Step]_vars

\* a process_csv_file that waited has failed after its upload, and the
\* get_job_status that followed returned its job, still 'processing'
C24_Witness ==
  /\ InQuery /\ mPc = "idle" /\ mOutcome = "returned"
  /\ submits = 1 /\ mWait
  /\ active_jobs[fileId] = mReturned
  /\ jobs[mReturned].status = "processing"
  /\ jobs[mReturned].last_status # NoValue
  /\ jobs[mReturned].input_file = mInput

(* ------------------- several callers of one manager -------------------- *)

\* calls of the manager the callers make, all together
MaxConcCalls == 2

RECURSIVE OpsOf(_)
\* the calls made so far by the callers of the set S
OpsOf(S) ==
  IF S = {} THEN 0
  ELSE LET c == CHOOSE x \in S : TRUE IN threads[c].ops + OpsOf(S \ {c})

\* the answers explored when several callers share the manager: for the
\* upload a JSON object with or without 'file_id' or a failure, for the
\* status request a record of each kind, a bare text body or a network
\* error
ConcUploadAnswers == { a \in UploadAnswers : a.value.kind # "text" }

ConcStatusAnswers == { a \in QueryAnswers : a.ok \/ a.error = "network error" }

\* the registry and what the manager's methods reach through it or write;
\* the rest of the state belongs to a caller
sharedVars == <<jobs, active_jobs, fs, clock, born>>

\* the variables of the sequential descriptions stay as they are
ConcFrame ==
  UNCHANGED <<waitVars, cliVars, mPc, mInput, mOutput, mWait, fileId, jobInfo,
              finalStatus, results, requests, mOutcome, mReturned, submits,
              queries, seenTerminal, opSawCompleted, trace, fsBefore, reply,
              regBefore>>

\* caller c's method ends, by return or by exception
ThreadEnd(c, outcome, returned) ==
  [threads[c] EXCEPT !.pc = "idle", !.outcome = outcome, !.returned = returned]

\* mutant: job_info is looked up as the job created last
OwnJob_Latest(t, all) == Len(all)

\* job_info is a local of process_csv_file: the dict this call created
OwnJob(t, all) == t.jobInfo

\* caller c invokes process_csv_file(input, output, wait) and runs up to
\* the upload request
ConcSubmit(c, input, output, wait) ==
  /\ threads[c].pc = "idle"
  /\ OpsOf(Callers) < MaxConcCalls
  /\ threads' = [threads EXCEPT ![c] =
       [IdleThread EXCEPT
          !.op = "submit", !.input = input, !.output = output,
          !.wait = wait,
          !.ops = threads[c].ops + 1,
          !.pc = IF PathExists(input) THEN "uploading" ELSE "idle",
          !.outcome = IF PathExists(input) THEN "none" ELSE "FileNotFound"]]
  /\ UNCHANGED sharedVars
  /\ ConcFrame

\* c's upload request comes back: with a file id the job is created and
\* registered, then the job is returned or the loop of the wait is entered
\* and its first status request sent
ConcUploadReply(c, ans) ==
  /\ threads[c].pc = "uploading"
  /\ IF ~ans.ok \/ FileIdOf(ans.value) = None
       THEN /\ threads' = [threads EXCEPT ![c] =
                 ThreadEnd(c, IF ans.ok THEN "UploadError" ELSE "RequestFailed", 0)]
            /\ UNCHANGED sharedVars
       ELSE LET fid == FileIdOf(ans.value)
                idx == Len(jobs) + 1
            IN /\ jobs' = Append(jobs, NewJob(fid, threads[c].input,
                                              threads[c].output, clock + 1))
               /\ clock' = clock + 1
               /\ active_jobs' = Register(active_jobs, fid, idx)
               /\ born' = Append(born, [file_id |-> fid,
                                        input_file |-> threads[c].input,
                                        output_file |-> threads[c].output,
                                        start_time |-> clock + 1])
               /\ threads' = [threads EXCEPT ![c] =
                    IF threads[c].wait /\ LoopTest(0, DEFAULT_MAX_WAIT)
                      THEN [@ EXCEPT !.pc = "polling", !.fileId = fid,
                                     !.jobInfo = idx]
                      ELSE [@ EXCEPT !.pc = "idle", !.fileId = fid,
                                     !.jobInfo = idx,
                                     !.outcome = IF threads[c].wait
                                                   THEN "Timeout" ELSE "returned",
                                     !.returned = IF threads[c].wait
                                                    THEN 0 ELSE idx]]
               /\ UNCHANGED fs
  /\ ConcFrame

\* c's status request of the wait comes back: the wait returns and the
\* download request is sent, or the wait raises, or the sleep begins
ConcStatusReply(c, ans) ==
  /\ threads[c].pc = "polling"
  /\ LET b == ReplyBranch(ans) IN
       threads' = [threads EXCEPT ![c] =
         IF b = "sleep" THEN [@ EXCEPT !.pc = "sleeping"]
         ELSE IF AfterWaitNext(b) = "download"
           THEN IF DownloadArgsOk(threads[c].fileId, "all")
                  THEN [@ EXCEPT !.pc = "downloading",
                                 !.finalStatus = ans.value]
                  ELSE ThreadEnd(c, "InvalidInput", 0)
         ELSE ThreadEnd(c, b, 0)]
  /\ UNCHANGED sharedVars
  /\ ConcFrame

\* c's sleep ends: the loop test, then the next status request or Timeout
ConcSleep(c) ==
  /\ threads[c].pc = "sleeping"
  /\ LET e == threads[c].elapsed
              + SleepTime(DEFAULT_CHECK_INTERVAL, LongOversleep)
     IN threads' = [threads EXCEPT ![c] =
          IF LoopTest(e, DEFAULT_MAX_WAIT)
            THEN [@ EXCEPT !.pc = "polling", !.elapsed = e]
            ELSE [ThreadEnd(c, "Timeout", 0) EXCEPT !.elapsed = e]]
  /\ UNCHANGED sharedVars
  /\ ConcFrame

\* c's download request comes back: the output file is written and c's
\* job marked and returned, or an exception leaves process_csv_file
ConcDownloadReply(c, ans, openOk) ==
  /\ threads[c].pc = "downloading"
  /\ IF ~ans.ok \/ ~openOk
       THEN /\ threads' = [threads EXCEPT ![c] =
                 ThreadEnd(c, IF ans.ok THEN "OSError" ELSE "RequestFailed", 0)]
            /\ UNCHANGED sharedVars
       ELSE IF ans.value.kind # "text"
         THEN /\ fs' = [fs EXCEPT ![threads[c].output] = ""]
              /\ threads' = [threads EXCEPT ![c] = ThreadEnd(c, "TypeError", 0)]
              /\ UNCHANGED <<jobs, active_jobs, clock, born>>
         ELSE /\ fs' = [fs EXCEPT ![threads[c].output] = ans.value.text]
              /\ jobs' = [jobs EXCEPT ![OwnJob(threads[c], jobs)] =
                            MarkCompleted(@, clock + 1, threads[c].finalStatus)]
              /\ clock' = clock + 1
              /\ threads' = [threads EXCEPT ![c] =
                   ThreadEnd(c, "returned", OwnJob(threads[c], jobs))]
              /\ UNCHANGED <<active_jobs, born>>
  /\ ConcFrame

\* caller c invokes get_job_status(fid) and runs up to the status request
ConcQuery(c, fid) ==
  /\ threads[c].pc = "idle"
  /\ OpsOf(Callers) < MaxConcCalls
  /\ threads' = [threads EXCEPT ![c] =
       [IdleThread EXCEPT
          !.op = "query", !.fileId = fid, !.ops = threads[c].ops + 1,
          !.pc = IF active_jobs[fid] = 0 THEN "idle" ELSE "querying",
          !.outcome = IF active_jobs[fid] = 0 THEN "UnknownJob" ELSE "none"]]
  /\ UNCHANGED sharedVars
  /\ ConcFrame

\* c's status request of get_job_status comes back: the payload is stored
\* in the job that is under the key now, and that job is returned
ConcQueryReply(c, ans) ==
  /\ threads[c].pc = "querying"
  /\ IF ans.ok
       THEN /\ jobs' = [jobs EXCEPT ![active_jobs[threads[c].fileId]] =
                          StoreLastStatus(@, ans.value)]
            /\ threads' = [threads EXCEPT ![c] =
                 ThreadEnd(c, "returned", active_jobs[threads[c].fileId])]
       ELSE /\ threads' = [threads EXCEPT ![c] = ThreadEnd(c, "RequestFailed", 0)]
            /\ UNCHANGED jobs
  /\ UNCHANGED <<active_jobs, fs, clock, born>>
  /\ ConcFrame

\* Several callers on one manager: each runs process_csv_file or
\* get_job_status, and the callers take turns at every request and sleep.
NextConc ==
  \E c \in Callers :
    \/ \E output \in OutputPaths, wait \in BOOLEAN, input \in InputPaths :
         ConcSubmit(c, input, output, wait)
    \/ \E ans \in ConcUploadAnswers : ConcUploadReply(c, ans)
    \/ \E ans \in ConcStatusAnswers : ConcStatusReply(c, ans)
    \/ ConcSleep(c)
    \/ \E ans \in DownloadAnswers, openOk \in BOOLEAN :
         ConcDownloadReply(c, ans, openOk)
    \/ \E fid \in FileIds : ConcQuery(c, fid)
    \/ \E ans \in ConcStatusAnswers : ConcQueryReply(c, ans)

SpecConc == Init /\ [][NextConc]_vars

\* job i still has the fields it was created with
KeepsBorn(i) ==
  /\ jobs[i].file_id = born[i].file_id
  /\ jobs[i].input_file = born[i].input_file
  /\ jobs[i].output_file = born[i].output_file
  /\ jobs[i].start_time = born[i].start_time

\* no other job was created with the file id of job i
DistinctFileId(i) ==
  \A j \in 1..Len(jobs) : j # i => jobs[j].file_id # jobs[i].file_id

\* C25, the states: with several callers on one manager, every job whose
\* upload was answered with a file id no other job has is in the registry
\* under that file id, every job has the fields it was created with, and
\* the job a process_csv_file holds or has returned is the one it created.
C25_Inv ==
  /\ \A i \in 1..Len(jobs) :
       /\ KeepsBorn(i)
       /\ DistinctFileId(i) => active_jobs[jobs[i].file_id] = i
  /\ \A c \in Callers :
       (threads[c].op = "submit" /\ threads[c].jobInfo # 0) =>
         /\ threads[c].jobInfo \in 1..Len(jobs)
         /\ jobs[threads[c].jobInfo].file_id = threads[c].fileId
         /\ jobs[threads[c].jobInfo].output_file = threads[c].output
         /\ threads[c].returned \in {0, threads[c].jobInfo}

\* C25, the steps: no key is ever removed from the registry, and a job
\* changes only by the step of a caller whose process_csv_file created it
\* (its status, end_time and final_status, at the marking) or of a caller
\* whose get_job_status asked for its file id (its last_status).
C25_Step ==
  /\ \A k \in FileIds : active_jobs[k] # 0 => active_jobs'[k] # 0
  /\ \A i \in 1..Len(jobs) :
       jobs'[i] # jobs[i] =>
         \E c \in Callers :
           /\ threads'[c] # threads[c]
           /\ \A o \in Callers \ {c} : threads'[o] = threads[o]
           /\ \/ /\ threads[c].op = "submit" /\ threads[c].pc = "downloading"
                 /\ threads[c].jobInfo = i
                 /\ jobs'[i] = [jobs[i] EXCEPT
                                  !.status = "completed",
                                  !.end_time = jobs'[i].end_time,
                                  !.final_status = threads[c].finalStatus]
              \/ /\ threads[c].op = "query" /\ threads[c].pc = "querying"
                 /\ threads[c].fileId = jobs[i].file_id
                 /\ jobs'[i] = [jobs[i] EXCEPT
                                  !.last_status = jobs'[i].last_status]

====
